---- MODULE Spec2Model ----
(***************************************************************************)
(* Model of the robot-arm sequence engine of roarm_v6.py: the step         *)
(* variants (SimpleRobotState, WaitForInputState, DropoffSelectionState),  *)
(* the state registry and the cursor-driven loop of StateMachine.run.      *)
(* The cursor i is 0-based as in the source; TLA+ sequences are 1-based,   *)
(* so Python's states[j] is states[j + 1] here.                            *)
(***************************************************************************)
EXTENDS Integers, Sequences, FiniteSets, TLC

\* Bounds of the model.
MaxLen == 3
MaxExec == 6
MaxLongExec == 12
MaxAdded == 2
MaxPrompts == 4

VARIABLES
    main_sequence,    \* the local `sequence` of main: the list of step names
    state_registry,   \* self.state_registry: registry key -> step template
    states,           \* self.states: the list of step instances
    i,                \* the cursor of StateMachine.run
    state,            \* the local `state` of run: the step fetched at the cursor
    k,                \* inside SimpleRobotState.execute: index of the next command
    pc,               \* where run() is: "loop", "fixed", or how it ended
    session_closed,   \* number of calls of self.session.close()
    slept,            \* did the most recent _send_command call time.sleep
    last_input,       \* what the most recent call of input() did
    executed,         \* history: uid of every step whose execute was called
    sent,             \* history: <<uid, index>> of every session.get issued
    dispatched,       \* history: the _send_command calls of the current step
    trace             \* history: cursor, step and result of every returned step

vars == <<main_sequence, state_registry, states, i, state, k, pc, session_closed,
          slept, last_input, executed, sent, dispatched, trace>>

----------------------------------------------------------------------------
\* Values returned by execute: members of the StateResult enum, or strings.

Enum(m) == [kind |-> "enum", enum |-> m, str |-> <<>>]
Str(s) == [kind |-> "str", enum |-> "", str |-> s]

SUCCESS == Enum("SUCCESS")
FAILURE == Enum("FAILURE")
ABORT == Enum("ABORT")
REPEAT == Str(<<"R", "E", "P", "E", "A", "T">>)

----------------------------------------------------------------------------
\* Text: a line of input is a sequence of characters.

LowerChar(c) ==
    CASE c = "A" -> "a"
      [] c = "R" -> "r"
      [] c = "S" -> "s"
      [] c = "X" -> "x"
      [] OTHER -> c

Lower(s) == [n \in 1..Len(s) |-> LowerChar(s[n])]

IsSpace(c) == c \in {" ", "\t"}

RECURSIVE LStrip(_)
LStrip(s) == IF s # <<>> /\ IsSpace(Head(s)) THEN LStrip(Tail(s)) ELSE s

RECURSIVE RStrip(_)
RStrip(s) ==
    IF s # <<>> /\ IsSpace(s[Len(s)]) THEN RStrip(SubSeq(s, 1, Len(s) - 1)) ELSE s

Strip(s) == RStrip(LStrip(s))

\* What input("  -> ") can do: return a line, or raise. The lines are the
\* tokens in both cases and with blanks, the empty line, keys of the maps
\* ("3" reads as "1" and "2" do) and "5", a key of no default map.
Lines ==
    { <<>>, <<"s">>, <<"S">>, <<"r">>, <<" ", "R">>, <<"a">>,
      <<"1">>, <<"2">>, <<"4">>, <<"1", " ">>, <<"5">> }

InputEvents ==
    { [ev |-> "line", text |-> t] : t \in Lines }
      \cup { [ev |-> "EOFError", text |-> <<>>],
             [ev |-> "KeyboardInterrupt", text |-> <<>>] }

\* No call of input() yet.
NoInput == [ev |-> "none", text |-> <<>>]

----------------------------------------------------------------------------
\* The pose tables, as the post-command delays in milliseconds.

HOME_POSE == <<100>>
LEFT_PICKUP_POSES == <<420, 300, 150, 140>>
MIDDLE_DROPOFF_POSES == <<550, 140>>
FRONT_DROPOFF_POSES == <<620, 170, 270>>
BACK_DROPOFF_POSES == <<950, 175>>
PUSH_OFF_POSES == <<125, 230, 500>>
PUSH_ON_HALF_POSES == <<10, 280>>
PUSH_ON_FULL_POSES == <<1600, 700, 200, 200, 350>>
BACK_PUSH_POSES == <<520, 150, 135, 100, 250>>
FAR_MIDDLE_POSES == <<2500, 500>>

NoMap == [x \in {} |-> ""]

PoseState(name, poses) ==
    [name |-> name, kind |-> "SimpleRobotState", commands |-> poses,
     dropoff_map |-> NoMap]

WaitForInputState(name) ==
    [name |-> name, kind |-> "WaitForInputState", commands |-> <<>>,
     dropoff_map |-> NoMap]

DropoffSelectionState(name, dropoff_map) ==
    [name |-> name, kind |-> "DropoffSelectionState", commands |-> <<>>,
     dropoff_map |-> dropoff_map]

SelectDropoffMap ==
    (<<"1">> :> "Middle Dropoff") @@ (<<"2">> :> "Front Dropoff")
      @@ (<<"3">> :> "Back Dropoff") @@ (<<"4">> :> "Far Middle Dropoff")

create_state_registry ==
    ("Home" :> PoseState("Home", HOME_POSE))
      @@ ("LeftPickup" :> PoseState("Left Pickup", LEFT_PICKUP_POSES))
      @@ ("MiddleDropoff" :> PoseState("Middle Dropoff", MIDDLE_DROPOFF_POSES))
      @@ ("FrontDropoff" :> PoseState("Front Dropoff", FRONT_DROPOFF_POSES))
      @@ ("BackDropoff" :> PoseState("Back Dropoff", BACK_DROPOFF_POSES))
      @@ ("PushOff" :> PoseState("Push Off", PUSH_OFF_POSES))
      @@ ("PushOnHalf" :> PoseState("Push On", PUSH_ON_HALF_POSES))
      @@ ("PushOnFull" :> PoseState("Push On", PUSH_ON_FULL_POSES))
      @@ ("BackPush" :> PoseState("Back Push", BACK_PUSH_POSES))
      @@ ("FarMiddle" :> PoseState("Far Middle Dropoff", FAR_MIDDLE_POSES))
      @@ ("Wait" :> WaitForInputState("Wait For Input"))
      @@ ("SelectDropoff" :> DropoffSelectionState("Select Dropoff", SelectDropoffMap))

\* Variant of the mapping: key "1" names the selection step itself.
dropoff_mapping_to_select ==
    (<<"1">> :> "SelectDropoff") @@ (<<"2">> :> "FrontDropoff")
      @@ (<<"3">> :> "BackDropoff") @@ (<<"4">> :> "FarMiddle")

dropoff_mapping ==
    (<<"1">> :> "MiddleDropoff") @@ (<<"2">> :> "FrontDropoff")
      @@ (<<"3">> :> "BackDropoff") @@ (<<"4">> :> "FarMiddle")

\* A step instance: what a registry factory returns, with its own identity.
Instance(template, uid) ==
    [uid |-> uid, name |-> template.name, kind |-> template.kind,
     commands |-> template.commands, dropoff_map |-> template.dropoff_map]

NoState == Instance(WaitForInputState(""), 0)

----------------------------------------------------------------------------
\* Python lists.

\* Variant of list indexing without negative indices: any index below 0
\* raises IndexError.
PyInRangeNonNegative(lst, idx) == 0 <= idx /\ idx < Len(lst)

\* lst[idx] is defined when -len <= idx < len, and raises IndexError otherwise.
PyInRange(lst, idx) == -Len(lst) <= idx /\ idx < Len(lst)

PyGet(lst, idx) == IF idx < 0 THEN lst[Len(lst) + idx + 1] ELSE lst[idx + 1]

\* lst.insert(idx, x): a negative idx counts from the end, and the position
\* is clamped to 0..len.
PyInsertPos(lst, idx) ==
    LET p == IF idx < 0 THEN idx + Len(lst) ELSE idx
    IN  IF p < 0 THEN 0 ELSE IF p > Len(lst) THEN Len(lst) ELSE p

PyInsert(lst, idx, x) ==
    LET p == PyInsertPos(lst, idx)
    IN  SubSeq(lst, 1, p) \o <<x>> \o SubSeq(lst, p + 1, Len(lst))

----------------------------------------------------------------------------
\* StateMachine.add_states_from_sequence

\* Variant of the building: an unknown name ends it instead of being skipped.
RECURSIVE add_states_until_unknown(_, _, _)
add_states_until_unknown(lst, registry, sequence) ==
    IF sequence = <<>> THEN lst
    ELSE LET state_name == Head(sequence)
         IN  IF state_name \in DOMAIN registry
             THEN add_states_until_unknown(
                      Append(lst, Instance(registry[state_name], Len(lst) + 1)),
                      registry, Tail(sequence))
             ELSE lst

RECURSIVE add_states_from_sequence(_, _, _)
add_states_from_sequence(lst, registry, sequence) ==
    IF sequence = <<>> THEN lst
    ELSE LET state_name == Head(sequence)
         IN  IF state_name \in DOMAIN registry
             THEN add_states_from_sequence(
                      Append(lst, Instance(registry[state_name], Len(lst) + 1)),
                      registry, Tail(sequence))
             ELSE add_states_from_sequence(lst, registry, Tail(sequence))

\* The names a sequence is written with; "Bogus" is in no registry.
SequenceNames == {"Home", "PushOff", "Wait", "SelectDropoff", "Bogus"}

Sequences == UNION { [1..n -> SequenceNames] : n \in 0..MaxLen }

----------------------------------------------------------------------------
\* The interactive steps.

\* Variant of DropoffSelectionState.execute: the input is not stripped.
DropoffSelectionExecuteNoStrip(dropoff_map, input) ==
    IF input.ev # "line" THEN ABORT
    ELSE LET user_input == Lower(input.text)
         IN  IF user_input = <<"s">> THEN SUCCESS
             ELSE IF user_input = <<"a">> THEN ABORT
             ELSE IF user_input \in DOMAIN dropoff_map THEN Str(user_input)
             ELSE FAILURE

\* Variant of DropoffSelectionState.execute: the map is looked up before the
\* skip and abort tokens.
DropoffSelectionExecuteMapFirst(dropoff_map, input) ==
    IF input.ev # "line" THEN ABORT
    ELSE LET user_input == Strip(Lower(input.text))
         IN  IF user_input \in DOMAIN dropoff_map THEN Str(user_input)
             ELSE IF user_input = <<"s">> THEN SUCCESS
             ELSE IF user_input = <<"a">> THEN ABORT
             ELSE FAILURE

\* DropoffSelectionState.execute
DropoffSelectionExecute(dropoff_map, input) ==
    IF input.ev # "line" THEN ABORT
    ELSE LET user_input == Strip(Lower(input.text))
         IN  IF user_input = <<"s">> THEN SUCCESS
             ELSE IF user_input = <<"a">> THEN ABORT
             ELSE IF user_input \in DOMAIN dropoff_map THEN Str(user_input)
             ELSE FAILURE

\* Variant of WaitForInputState.execute: the input is not lower-cased.
WaitForInputExecuteNoLower(input) ==
    IF input.ev # "line" THEN ABORT
    ELSE LET user_input == Strip(input.text)
         IN  IF user_input = <<"s">> THEN SUCCESS
             ELSE IF user_input = <<"r">> THEN REPEAT
             ELSE SUCCESS

\* WaitForInputState.execute
WaitForInputExecute(input) ==
    IF input.ev # "line" THEN ABORT
    ELSE LET user_input == Strip(Lower(input.text))
         IN  IF user_input = <<"s">> THEN SUCCESS
             ELSE IF user_input = <<"r">> THEN REPEAT
             ELSE SUCCESS

----------------------------------------------------------------------------
\* RobotState._send_command: what session.get and time.sleep can do.

\* "KeyboardInterrupt" is raised inside session.get, "SleepInterrupt" is a
\* KeyboardInterrupt raised inside time.sleep after a response.
Transport == {"response", "Timeout", "RequestException", "Exception",
              "KeyboardInterrupt", "SleepInterrupt"}

\* No except clause of _send_command catches these.
Interrupts == {"KeyboardInterrupt", "SleepInterrupt"}

\* Variant of the classification: Timeout is caught as a RequestException.
SendCommandResultTimeoutFails(outcome) ==
    IF outcome = "response" THEN SUCCESS ELSE FAILURE

\* Variant of the classification: an unexpected exception aborts the run.
SendCommandResultAbortsOnFault(outcome) ==
    IF outcome \in {"response", "Timeout"} THEN SUCCESS
    ELSE IF outcome = "RequestException" THEN FAILURE
    ELSE ABORT

\* The classification of one request; KeyboardInterrupt is not an Exception
\* and is not classified.
SendCommandResult(outcome) ==
    IF outcome \in {"response", "Timeout"} THEN SUCCESS ELSE FAILURE

\* Variant of the pacing delay: the sleep sits in a finally clause.
SendCommandSleepsAlways(outcome, delay) == delay > 0

SendCommandSleeps(outcome, delay) == outcome = "response" /\ delay > 0

----------------------------------------------------------------------------
\* StateMachine.run

Terminal == {"Completed", "Failed", "Aborted", "Interrupted", "IndexError",
             "KeyError"}

Init ==
    /\ state_registry = create_state_registry
    /\ main_sequence \in Sequences
    /\ states = add_states_from_sequence(<<>>, state_registry, main_sequence)
    /\ i = 0
    /\ state = NoState
    /\ k = 0
    /\ pc = "loop"
    /\ session_closed = 0
    /\ slept = FALSE
    /\ last_input = NoInput
    /\ executed = <<>>
    /\ sent = <<>>
    /\ dispatched = <<>>
    /\ trace = <<>>

\* Variant of the while condition: the bound is off by one.
LoopConditionInclusive(cursor, lst) == cursor <= Len(lst)

\* Variant of the while condition: the body runs once before the test.
LoopConditionAfterFirstPass(cursor, lst) == cursor = 0 \/ cursor < Len(lst)

\* The while condition of the loop.
LoopCondition(cursor, lst) == cursor < Len(lst)

\* Variant of the chain: a failed step is passed over like a successful one.
BranchFailureAdvances(result) ==
    IF result = SUCCESS \/ result = FAILURE THEN "advance"
    ELSE IF result = REPEAT THEN "repeat"
    ELSE IF result.kind = "str" /\ result.str \in DOMAIN dropoff_mapping
    THEN "inject"
    ELSE IF result = ABORT THEN "abort"
    ELSE "fail"

\* Variant of the chain: the ABORT branch is missing, so ABORT reaches else.
BranchWithoutAbort(result) ==
    IF result = SUCCESS THEN "advance"
    ELSE IF result = REPEAT THEN "repeat"
    ELSE IF result.kind = "str" /\ result.str \in DOMAIN dropoff_mapping
    THEN "inject"
    ELSE "fail"

\* Variant of the chain: a key without a mapping is skipped and the run
\* goes on.
BranchUnmappedAdvances(result) ==
    IF result = SUCCESS THEN "advance"
    ELSE IF result = REPEAT THEN "repeat"
    ELSE IF result.kind = "str" /\ result.str \in DOMAIN dropoff_mapping
    THEN "inject"
    ELSE IF result = ABORT THEN "abort"
    ELSE IF result.kind = "str" THEN "advance"
    ELSE "fail"

\* Variant of the chain without its "REPEAT" branch, as in roarm_v2.
BranchWithoutRepeat(result) ==
    IF result = SUCCESS THEN "advance"
    ELSE IF result.kind = "str" /\ result.str \in DOMAIN dropoff_mapping
    THEN "inject"
    ELSE IF result = ABORT THEN "abort"
    ELSE "fail"

\* The if/elif chain of the loop body on the result of state.execute.
Branch(result) ==
    IF result = SUCCESS THEN "advance"
    ELSE IF result = REPEAT THEN "repeat"
    ELSE IF result.kind = "str" /\ result.str \in DOMAIN dropoff_mapping
    THEN "inject"
    ELSE IF result = ABORT THEN "abort"
    ELSE "fail"

\* Variant of the rewind: Repeat also takes the injected steps out of the
\* list again.
OutcomeRepeatDrops(st, result) ==
    /\ trace' = Append(trace, [cursor |-> i, uid |-> st.uid, result |-> result,
                               nsent |-> Len(sent')])
    /\ CASE Branch(result) = "advance" ->
              /\ i' = i + 1
              /\ pc' = "loop"
              /\ UNCHANGED <<states, session_closed>>
         [] Branch(result) = "repeat" ->
              /\ i' = i - 2
              /\ pc' = "loop"
              /\ states' = SelectSeq(states,
                                     LAMBDA s : s.uid <= Len(main_sequence))
              /\ UNCHANGED session_closed
         [] Branch(result) = "inject" ->
              LET dropoff_state_name == dropoff_mapping[result.str]
              IN  IF dropoff_state_name \in DOMAIN state_registry
                  THEN /\ states' = PyInsert(states, i + 1,
                                       Instance(state_registry[dropoff_state_name],
                                                Len(states) + 1))
                       /\ i' = i + 1
                       /\ pc' = "loop"
                       /\ UNCHANGED session_closed
                  ELSE /\ pc' = "KeyError"
                       /\ session_closed' = session_closed + 1
                       /\ UNCHANGED <<states, i>>
         [] Branch(result) = "abort" ->
              /\ pc' = "Aborted"
              /\ session_closed' = session_closed + 1
              /\ UNCHANGED <<states, i>>
         [] Branch(result) = "fail" ->
              /\ pc' = "Failed"
              /\ session_closed' = session_closed + 1
              /\ UNCHANGED <<states, i>>

\* The loop body after state.execute returned, and the finally clause on the
\* paths that leave the loop.
Outcome(st, result) ==
    /\ trace' = Append(trace, [cursor |-> i, uid |-> st.uid, result |-> result,
                               nsent |-> Len(sent')])
    /\ CASE Branch(result) = "advance" ->
              /\ i' = i + 1
              /\ pc' = "loop"
              /\ UNCHANGED <<states, session_closed>>
         [] Branch(result) = "repeat" ->
              /\ i' = i - 2
              /\ pc' = "loop"
              /\ UNCHANGED <<states, session_closed>>
         [] Branch(result) = "inject" ->
              LET dropoff_state_name == dropoff_mapping[result.str]
              IN  IF dropoff_state_name \in DOMAIN state_registry
                  THEN /\ states' = PyInsert(states, i + 1,
                                       Instance(state_registry[dropoff_state_name],
                                                Len(states) + 1))
                       /\ i' = i + 1
                       /\ pc' = "loop"
                       /\ UNCHANGED session_closed
                  ELSE /\ pc' = "KeyError"
                       /\ session_closed' = session_closed + 1
                       /\ UNCHANGED <<states, i>>
         [] Branch(result) = "abort" ->
              /\ pc' = "Aborted"
              /\ session_closed' = session_closed + 1
              /\ UNCHANGED <<states, i>>
         [] Branch(result) = "fail" ->
              /\ pc' = "Failed"
              /\ session_closed' = session_closed + 1
              /\ UNCHANGED <<states, i>>

\* The number of step executions a run is followed for: runs of the longer
\* sequences are followed further.
ExecBound == IF Len(main_sequence) > MaxLen THEN MaxLongExec ELSE MaxExec

\* Variant of the normal exit: the session is closed on the other paths only.
CompleteWithoutClose ==
    /\ pc = "loop"
    /\ ~(i < Len(states))
    /\ pc' = "Completed"
    /\ UNCHANGED <<main_sequence, state_registry, states, i, state, k,
                   session_closed, slept, last_input, executed, sent,
                   dispatched, trace>>

\* while i < len(self.states) is false: the run completes.
Complete ==
    /\ pc = "loop"
    /\ ~LoopCondition(i, states)
    /\ pc' = "Completed"
    /\ session_closed' = session_closed + 1
    /\ UNCHANGED <<main_sequence, state_registry, states, i, state, k, slept,
                   last_input, executed, sent, dispatched, trace>>

\* state = self.states[i] raises IndexError, which run does not catch.
RaiseIndexError ==
    /\ pc = "loop"
    /\ LoopCondition(i, states)
    /\ ~PyInRange(states, i)
    /\ pc' = "IndexError"
    /\ session_closed' = session_closed + 1
    /\ UNCHANGED <<main_sequence, state_registry, states, i, state, k, slept,
                   last_input, executed, sent, dispatched, trace>>

\* The step at the cursor is a SimpleRobotState: its execute starts.
StartSimple ==
    /\ pc = "loop"
    /\ LoopCondition(i, states)
    /\ PyInRange(states, i)
    /\ Len(executed) < ExecBound
    /\ UNCHANGED <<main_sequence, state_registry, slept, last_input, sent>>
    /\ LET st == PyGet(states, i)
       IN  /\ st.kind = "SimpleRobotState"
           /\ state' = st
           /\ executed' = Append(executed, st.uid)
           /\ dispatched' = <<>>
           /\ IF st.commands = <<>>
              THEN /\ k' = 0
                   /\ Outcome(st, SUCCESS)
              ELSE /\ k' = 1
                   /\ pc' = "fixed"
                   /\ UNCHANGED <<states, i, session_closed, trace>>

\* Variant of the early return: only ABORT stops the step.
StepStopsOnAbort(result) == result = ABORT

\* SimpleRobotState.execute returns early on this sub-result.
StepStops(result) == result # SUCCESS

\* Variant of the loop end: the last command of the list is left out.
LastCommandEarly(index, commands) == index >= Len(commands) - 1

\* The for loop of SimpleRobotState.execute is at its last command.
LastCommand(index, commands) == index = Len(commands)

\* Variant of _send_command: a bare except clause, which also catches a
\* KeyboardInterrupt and returns FAILURE for it.
SendCommandCatchesInterrupt ==
    /\ pc = "fixed"
    /\ \E outcome \in Transport :
         LET delay == state.commands[k]
             result == SendCommandResult(outcome)
         IN  /\ sent' = Append(sent, <<state.uid, k>>)
             /\ slept' = (outcome = "SleepInterrupt"
                            \/ SendCommandSleeps(outcome, delay))
             /\ dispatched' = Append(dispatched,
                                     [index |-> k, outcome |-> outcome,
                                      result |-> result])
             /\ IF StepStops(result)
                THEN /\ k' = k
                     /\ Outcome(state, result)
                ELSE IF LastCommand(k, state.commands)
                THEN /\ k' = k
                     /\ Outcome(state, SUCCESS)
                ELSE /\ k' = k + 1
                     /\ UNCHANGED <<states, i, pc, session_closed, trace>>
    /\ UNCHANGED <<main_sequence, state_registry, state, last_input, executed>>

\* One iteration of the loop of SimpleRobotState.execute: _send_command for
\* command k, then return or go on. A KeyboardInterrupt raised by the request
\* or by the sleep leaves _send_command, execute and the loop of run, and is
\* caught by run, whose finally clause closes the session.
SendCommand ==
    /\ pc = "fixed"
    /\ \E outcome \in Transport :
         LET delay == state.commands[k]
             result == SendCommandResult(outcome)
         IN  /\ outcome = "SleepInterrupt" => delay > 0
             /\ sent' = Append(sent, <<state.uid, k>>)
             /\ IF outcome \in Interrupts
                THEN /\ pc' = "Interrupted"
                     /\ session_closed' = session_closed + 1
                     /\ slept' = IF outcome = "SleepInterrupt" THEN TRUE ELSE slept
                     /\ UNCHANGED <<states, i, k, dispatched, trace>>
                ELSE /\ slept' = SendCommandSleeps(outcome, delay)
                     /\ dispatched' = Append(dispatched,
                                             [index |-> k, outcome |-> outcome,
                                              result |-> result])
                     /\ IF StepStops(result)
                        THEN /\ k' = k
                             /\ Outcome(state, result)
                        ELSE IF LastCommand(k, state.commands)
                        THEN /\ k' = k
                             /\ Outcome(state, SUCCESS)
                        ELSE /\ k' = k + 1
                             /\ UNCHANGED <<states, i, pc, session_closed, trace>>
    /\ UNCHANGED <<main_sequence, state_registry, state, last_input, executed>>

\* Variant of the wait step: it sends a command before it prompts.
ExecuteWaitSends ==
    /\ pc = "loop"
    /\ i < Len(states)
    /\ PyInRange(states, i)
    /\ Len(executed) < ExecBound
    /\ UNCHANGED <<main_sequence, state_registry, k, slept, dispatched>>
    /\ LET st == PyGet(states, i)
       IN  /\ st.kind = "WaitForInputState"
           /\ state' = st
           /\ executed' = Append(executed, st.uid)
           /\ sent' = Append(sent, <<st.uid, 1>>)
           /\ \E input \in InputEvents :
                  /\ last_input' = input
                  /\ Outcome(st, WaitForInputExecute(input))

\* The step at the cursor is a WaitForInputState.
ExecuteWait ==
    /\ pc = "loop"
    /\ LoopCondition(i, states)
    /\ PyInRange(states, i)
    /\ Len(executed) < ExecBound
    /\ UNCHANGED <<main_sequence, state_registry, k, slept, sent, dispatched>>
    /\ LET st == PyGet(states, i)
       IN  /\ st.kind = "WaitForInputState"
           /\ state' = st
           /\ executed' = Append(executed, st.uid)
           /\ \E input \in InputEvents :
                  /\ last_input' = input
                  /\ Outcome(st, WaitForInputExecute(input))

\* The step at the cursor is a DropoffSelectionState.
ExecuteSelect ==
    /\ pc = "loop"
    /\ LoopCondition(i, states)
    /\ PyInRange(states, i)
    /\ Len(executed) < ExecBound
    /\ UNCHANGED <<main_sequence, state_registry, k, slept, sent, dispatched>>
    /\ LET st == PyGet(states, i)
       IN  /\ st.kind = "DropoffSelectionState"
           /\ state' = st
           /\ executed' = Append(executed, st.uid)
           /\ \E input \in InputEvents :
                  /\ last_input' = input
                  /\ Outcome(st, DropoffSelectionExecute(st.dropoff_map, input))

Next ==
    \/ StartSimple
    \/ SendCommand
    \/ ExecuteWait
    \/ ExecuteSelect
    \/ RaiseIndexError
    \/ Complete

Spec == Init /\ [][Next]_vars

----------------------------------------------------------------------------
\* main with the machine still to be assembled, over any registry a caller
\* may pass to StateMachine.

\* The registry without some of its names.
Without(registry, names) == [n \in DOMAIN registry \ names |-> registry[n]]

Registries ==
    { create_state_registry,
      Without(create_state_registry, {"FarMiddle", "PushOff"}) }

InitBuild ==
    /\ state_registry \in Registries
    /\ main_sequence \in Sequences
    /\ states = <<>>
    /\ i = 0
    /\ state = NoState
    /\ k = 0
    /\ pc = "build"
    /\ session_closed = 0
    /\ slept = FALSE
    /\ last_input = NoInput
    /\ executed = <<>>
    /\ sent = <<>>
    /\ dispatched = <<>>
    /\ trace = <<>>

\* machine.add_states_from_sequence(sequence), then machine.run() starts.
AddStatesFromSequence ==
    /\ pc = "build"
    /\ states' = add_states_from_sequence(states, state_registry, main_sequence)
    /\ pc' = "loop"
    /\ UNCHANGED <<main_sequence, state_registry, i, state, k, session_closed, slept,
                   last_input, executed, sent, dispatched, trace>>

NextBuild ==
    \/ AddStatesFromSequence
    \/ StartSimple
    \/ SendCommand
    \/ ExecuteWait
    \/ ExecuteSelect
    \/ RaiseIndexError
    \/ Complete

SpecBuild == InitBuild /\ [][NextBuild]_vars

----------------------------------------------------------------------------
\* Runs of longer sequences: the sequence of main, and a sequence in which a
\* wait step sits at position 1 and the selection step is the last one.

MainSequence == <<"Home", "LeftPickup", "SelectDropoff", "PushOff", "Home">>

LongRuns ==
    { MainSequence,
      <<"Wait", "Wait", "Wait", "Wait", "SelectDropoff">> }

InitLong ==
    /\ state_registry = create_state_registry
    /\ main_sequence \in LongRuns
    /\ states = add_states_from_sequence(<<>>, state_registry, main_sequence)
    /\ i = 0
    /\ state = NoState
    /\ k = 0
    /\ pc = "loop"
    /\ session_closed = 0
    /\ slept = FALSE
    /\ last_input = NoInput
    /\ executed = <<>>
    /\ sent = <<>>
    /\ dispatched = <<>>
    /\ trace = <<>>

SpecLong == InitLong /\ [][Next]_vars

----------------------------------------------------------------------------
\* A machine assembled with StateMachine.add_state from step objects the
\* caller constructs, among them a selection step with a map of its own.

\* A map with a key the mapping of run has, a key it lacks, and the skip and
\* abort tokens as keys.
CustomDropoffMap ==
    (<<"1">> :> "Middle Dropoff") @@ (<<"5">> :> "Side Dropoff")
      @@ (<<"s">> :> "Shelf") @@ (<<"a">> :> "Aft Dropoff")

AddedSteps ==
    { PoseState("Home", HOME_POSE),
      WaitForInputState("Wait For Input"),
      DropoffSelectionState("Select Dropoff", CustomDropoffMap) }

\* machine.add_state(step) for each step of a list.
add_state(steps) == [n \in 1..Len(steps) |-> Instance(steps[n], n)]

InitCustom ==
    /\ state_registry = create_state_registry
    /\ main_sequence = <<>>
    /\ \E steps \in UNION { [1..n -> AddedSteps] : n \in 0..MaxAdded } :
           states = add_state(steps)
    /\ i = 0
    /\ state = NoState
    /\ k = 0
    /\ pc = "loop"
    /\ session_closed = 0
    /\ slept = FALSE
    /\ last_input = NoInput
    /\ executed = <<>>
    /\ sent = <<>>
    /\ dispatched = <<>>
    /\ trace = <<>>

SpecCustom == InitCustom /\ [][Next]_vars

----------------------------------------------------------------------------
\* Properties of StateMachine.run.

LastTrace == trace[Len(trace)]

\* The step whose execute was called last has returned.
StepReturned == Len(trace) = Len(executed)

\* This step is the first to start executing after the last returned one.
NextStepStarts == trace # <<>> /\ StepReturned /\ Len(executed') = Len(executed) + 1

LastExecuted == executed[Len(executed)]

\* C1: when the step at cursor i returns Repeat, the next step executed is
\* the step at position i - 1, the one right before the step that returned
\* Repeat (stated for the cursors i >= 1, where there is such a step).
C1_RepeatRunsPreviousStep ==
    [][(NextStepStarts /\ LastTrace.result = REPEAT /\ LastTrace.cursor >= 1)
          => LastExecuted' = states[(LastTrace.cursor - 1) + 1].uid]_vars

\* C2: on a two-step sequence, after two consecutive Repeat results the run
\* has not ended: it is still in its loop, about to execute a step.
C2_TwoRepeatsKeepRunning ==
    (/\ Len(states) = 2
     /\ Len(trace) >= 2
     /\ StepReturned
     /\ LastTrace.result = REPEAT
     /\ trace[Len(trace) - 1].result = REPEAT)
        => pc = "loop"

\* C3: the cursor stays within 0..len(states) in every state of a run.
C3_CursorInRange == 0 <= i /\ i <= Len(states)

\* C4: a step that returns Failure halts the run as Failed: it is the last
\* step executed, it is not executed again, and no command is dispatched
\* after it returned.
C4_FailureHalts ==
    \A n \in 1..Len(trace) :
        trace[n].result = FAILURE
            => /\ n = Len(trace)
               /\ pc = "Failed"
               /\ Len(executed) = n
               /\ Len(sent) = trace[n].nsent

\* C4 witness: the second step fails on command 2 of 3 with a step left.
C4_Witness ==
    /\ pc = "Failed"
    /\ Len(trace) = 2
    /\ LastTrace.result = FAILURE
    /\ state.kind = "SimpleRobotState"
    /\ Len(state.commands) = 3
    /\ Len(dispatched) = 2
    /\ Len(sent) = 3
    /\ i + 1 < Len(states)

\* C5: a step that returns Abort halts the run as Aborted: no step is
\* executed and no command is dispatched afterwards, whatever remains.
C5_AbortHalts ==
    \A n \in 1..Len(trace) :
        trace[n].result = ABORT
            => /\ n = Len(trace)
               /\ pc = "Aborted"
               /\ Len(executed) = n
               /\ Len(sent) = trace[n].nsent

\* C5 witness: an abort after commands were sent, with two or more steps left.
C5_Witness ==
    /\ pc = "Aborted"
    /\ LastTrace.result = ABORT
    /\ i + 2 < Len(states)
    /\ sent # <<>>

AllSuccess == \A n \in 1..Len(trace) : trace[n].result = SUCCESS

\* The requests of each step of a list, every command once, in list order.
RECURSIVE AllCommands(_)
AllCommands(lst) ==
    IF lst = <<>> THEN <<>>
    ELSE [n \in 1..Len(Head(lst).commands) |-> <<Head(lst).uid, n>>]
           \o AllCommands(Tail(lst))

\* C6: while every executed step returned Success, the steps executed are
\* the steps of the list from position 0, in order, each once; the run ends
\* Completed exactly when the cursor equals the length, having sent every
\* command of every step once.
C6_AllSuccessCompletes ==
    AllSuccess
        => /\ \A n \in 1..Len(executed) :
                  n <= Len(states) /\ executed[n] = states[n].uid
           /\ \A n \in 1..Len(trace) : trace[n].cursor = n - 1
           /\ pc = "Completed"
                  => /\ i = Len(states)
                     /\ Len(executed) = Len(states)
                     /\ sent = AllCommands(states)
           /\ i = Len(states) => pc \in {"loop", "Completed"}
           /\ (pc \in Terminal /\ StepReturned) => pc = "Completed"

\* C6 witness: a completed run of three steps, one of them of three commands.
C6_Witness ==
    /\ AllSuccess
    /\ pc = "Completed"
    /\ Len(states) = 3
    /\ \E n \in 1..3 : Len(states[n].commands) = 3

Range(f) == { f[x] : x \in DOMAIN f }

\* The step just returned takes the inject branch of the loop.
Injects == Len(trace') = Len(trace) + 1 /\ Branch(LastTrace'.result) = "inject"

\* C7: a SelectKey result at cursor i inserts one new step at position
\* i + 1: positions 0..i keep their steps, a step at j > i moves to j + 1,
\* the length grows by one and the new step has not been executed.
C7_InjectAfterCursor ==
    [][Injects
          => /\ Len(states') = Len(states) + 1
             /\ \A j \in 0..(Len(states) - 1) :
                    IF j <= i THEN states'[j + 1] = states[j + 1]
                    ELSE states'[(j + 1) + 1] = states[j + 1]
             /\ i + 1 \in 0..Len(states)
             /\ states'[(i + 1) + 1] \notin Range(states)
             /\ states'[(i + 1) + 1].uid \notin Range(executed')]_vars

\* The step the last injection added, and the list before it was added.
InjectedUid == Len(states)
BeforeInjection == SelectSeq(states, LAMBDA s : s.uid # InjectedUid)

\* C8: after a SelectKey result at cursor i the next step executed is the
\* injected step, not the selecting step again, and when the injected step
\* succeeds the step after it is the one that was at i + 1 before.
C8_InjectedRunsNext ==
    [][/\ (NextStepStarts /\ Branch(LastTrace.result) = "inject")
              => /\ LastExecuted' = InjectedUid
                 /\ LastExecuted' # LastTrace.uid
       /\ (/\ NextStepStarts
           /\ Len(trace) >= 2
           /\ Branch(trace[Len(trace) - 1].result) = "inject"
           /\ LastTrace.result = SUCCESS)
              => LET c == trace[Len(trace) - 1].cursor
                 IN  /\ c + 1 \in 0..(Len(BeforeInjection) - 1)
                     /\ LastExecuted' = BeforeInjection[(c + 1) + 1].uid]_vars

----------------------------------------------------------------------------
\* Properties of SimpleRobotState.execute.

Failures == { n \in 1..Len(dispatched) : dispatched[n].result = FAILURE }

FirstFailure == CHOOSE n \in Failures : \A m \in Failures : n <= m

\* The last n requests sent are commands 1..n of the current step.
SentTail(n) ==
    /\ n <= Len(sent)
    /\ SubSeq(sent, Len(sent) - n + 1, Len(sent))
           = [m \in 1..n |-> <<state.uid, m>>]

\* C9: when command K of a step of N commands is the first whose dispatch
\* returns Failure, exactly the commands 1..K are dispatched, K+1..N never
\* are, and the step returns Failure.
C9_StopsAtFirstFailure ==
    Failures # {}
        => /\ Len(dispatched) = FirstFailure
           /\ \A n \in 1..Len(dispatched) : dispatched[n].index = n
           /\ FirstFailure <= Len(state.commands)
           /\ SentTail(FirstFailure)
           /\ StepReturned
           /\ LastTrace.uid = state.uid
           /\ LastTrace.result = FAILURE

\* C9 witness: command 2 of 3 fails after command 1 succeeded.
C9_Witness ==
    /\ Len(state.commands) = 3
    /\ Len(dispatched) = 2
    /\ dispatched[1].result = SUCCESS
    /\ dispatched[2].result = FAILURE
    /\ StepReturned

\* C10: when every dispatch of a step returns Success, its N commands are
\* dispatched once each in list order and the step returns Success.
C10_AllCommandsInOrder ==
    (/\ state.kind = "SimpleRobotState"
     /\ \A n \in 1..Len(dispatched) : dispatched[n].result = SUCCESS)
        => /\ \A n \in 1..Len(dispatched) : dispatched[n].index = n
           /\ Len(dispatched) <= Len(state.commands)
           /\ pc # "Interrupted" => SentTail(Len(dispatched))
           /\ pc = "fixed" => k = Len(dispatched) + 1
           /\ StepReturned
                  => /\ Len(dispatched) = Len(state.commands)
                     /\ LastTrace.uid = state.uid
                     /\ LastTrace.result = SUCCESS

\* C10 witness: a step of three commands returned after three successes.
C10_Witness ==
    /\ state.kind = "SimpleRobotState"
    /\ StepReturned
    /\ Len(dispatched) = 3
    /\ \A n \in 1..3 : dispatched[n].result = SUCCESS
    /\ LastTrace.result = SUCCESS

----------------------------------------------------------------------------
\* Properties of RobotState._send_command.

LastDispatch == dispatched[Len(dispatched)]

\* The current step is a SimpleRobotState that has classified a request.
HasDispatched == state.kind = "SimpleRobotState" /\ dispatched # <<>>

\* C11: after a request is classified, as completed or as a timeout, the
\* dispatcher sleeps for the delay of the command whenever that delay is
\* positive: on the timeout path too.
C11_DelayAfterClassification ==
    (/\ HasDispatched
     /\ LastDispatch.outcome \in {"response", "Timeout"}
     /\ state.commands[LastDispatch.index] > 0)
        => slept

AllTimeouts ==
    /\ HasDispatched
    /\ \A n \in 1..Len(dispatched) : dispatched[n].outcome = "Timeout"

\* C12: a request that times out is classified Success, never Failure; a
\* step whose every request times out sends all its commands and returns
\* Success, and the run advances past it.
C12_TimeoutIsSuccess ==
    /\ \A n \in 1..Len(dispatched) :
           dispatched[n].outcome = "Timeout" => dispatched[n].result = SUCCESS
    /\ (AllTimeouts /\ StepReturned)
           => /\ Len(dispatched) = Len(state.commands)
              /\ LastTrace.uid = state.uid
              /\ LastTrace.result = SUCCESS
              /\ i = LastTrace.cursor + 1
              /\ pc \in {"loop", "Completed"}

\* C12 witness: a step of three commands returned after three timeouts.
C12_Witness ==
    /\ AllTimeouts
    /\ StepReturned
    /\ Len(dispatched) = 3
    /\ LastTrace.result = SUCCESS

\* C13: a transport fault that is not a timeout, and any other exception
\* that is not an interrupt, is classified Failure; the dispatcher does not
\* sleep, the step returns Failure at that request and the run is Failed.
C13_FaultIsFailure ==
    \A n \in 1..Len(dispatched) :
        dispatched[n].outcome \in {"RequestException", "Exception"}
            => /\ dispatched[n].result = FAILURE
               /\ n = Len(dispatched)
               /\ ~slept
               /\ StepReturned
               /\ LastTrace.uid = state.uid
               /\ LastTrace.result = FAILURE
               /\ Len(sent) = LastTrace.nsent
               /\ pc = "Failed"

\* C13 witness: an unexpected exception at the second request of a step.
C13_Witness ==
    /\ Len(dispatched) = 2
    /\ dispatched[1].outcome = "response"
    /\ dispatched[2].outcome = "Exception"
    /\ pc = "Failed"

----------------------------------------------------------------------------
\* Properties of the session and of the registry.

\* C14: the session is closed on every path that leaves run (completed,
\* failed, aborted, interrupt, any other exception), exactly once, and it
\* is not closed while the run goes on.
C14_SessionClosedOnce ==
    session_closed = IF pc \in Terminal THEN 1 ELSE 0

\* C14 witness: the run was left by an exception that run does not catch.
C14_Witness ==
    /\ pc \in {"KeyError", "IndexError"}
    /\ executed # <<>>
    /\ session_closed = 1

\* C15: resolving a name through the registry never ends the run by an
\* exception, at assembly and at injection alike.
C15_NoExceptionFromRegistry == pc # "KeyError"

\* The names of the sequence that the registry knows, in their order.
Known == SelectSeq(main_sequence, LAMBDA n : n \in DOMAIN state_registry)

\* C16: add_states_from_sequence appends one fresh step per name of the
\* registry, in the order given, and nothing for an unknown name; the
\* building does not fail.
C16_BuildKeepsKnownNames ==
    /\ pc = "build" => states = <<>>
    /\ (pc # "build" /\ executed = <<>>)
           => /\ Len(states) = Len(Known)
              /\ \A j \in 1..Len(states) :
                     states[j] = Instance(state_registry[Known[j]], j)
              /\ pc \in {"loop", "Completed"}

\* C16 witness: three names, the second unknown, gave two steps.
C16_Witness ==
    /\ pc = "loop"
    /\ executed = <<>>
    /\ Len(main_sequence) = 3
    /\ main_sequence[2] \notin DOMAIN state_registry
    /\ Len(states) = 2

\* C17: a run over an empty list of steps ends Completed; no step is
\* executed and no command is dispatched.
C17_EmptyRunCompletes ==
    states = <<>>
        => /\ executed = <<>>
           /\ sent = <<>>
           /\ trace = <<>>
           /\ pc \in {"loop", "Completed"}
           /\ pc = "loop" => ENABLED Complete

\* C17 witness: no name of a non-empty sequence resolved, the run completed.
C17_Witness ==
    /\ states = <<>>
    /\ main_sequence # <<>>
    /\ pc = "Completed"

----------------------------------------------------------------------------
\* Properties of the interactive steps.

\* What a line of Lines reads as once lower-cased and trimmed.
TypedLine(text) ==
    CASE text = <<"S">> -> <<"s">>
      [] text = <<" ", "R">> -> <<"r">>
      [] text = <<"1", " ">> -> <<"1">>
      [] OTHER -> text

\* The last step executed is of this class and has returned.
Returned(kind) ==
    /\ state.kind = kind
    /\ trace # <<>>
    /\ StepReturned
    /\ LastTrace.uid = state.uid

\* C18: the wait step maps its line, lower-cased and trimmed: 'r' to
\* Repeat, 's' and any other text, the empty line included, to Success;
\* end of input and interrupt to Abort.
C18_WaitOutcomes ==
    Returned("WaitForInputState")
        => /\ LastTrace.result \in {SUCCESS, REPEAT, ABORT}
           /\ LastTrace.result =
                  IF last_input.ev # "line" THEN ABORT
                  ELSE IF TypedLine(last_input.text) = <<"r">> THEN REPEAT
                  ELSE SUCCESS

\* C18 witness: " R" was read as the repeat token.
C18_Witness ==
    /\ Returned("WaitForInputState")
    /\ last_input.text = <<" ", "R">>
    /\ LastTrace.result = REPEAT

\* C19: the selection step maps its line: the skip token to Success, the
\* abort token to Abort, a key of its map to that key, anything else to
\* Failure; end of input and interrupt to Abort.
C19_SelectOutcomes ==
    Returned("DropoffSelectionState")
        => LastTrace.result =
               IF last_input.ev # "line" THEN ABORT
               ELSE IF TypedLine(last_input.text) = <<"s">> THEN SUCCESS
               ELSE IF TypedLine(last_input.text) = <<"a">> THEN ABORT
               ELSE IF TypedLine(last_input.text) \in DOMAIN state.dropoff_map
               THEN Str(TypedLine(last_input.text))
               ELSE FAILURE

\* C19 witness: "1 " selected the key "1".
C19_Witness ==
    /\ Returned("DropoffSelectionState")
    /\ last_input.text = <<"1", " ">>
    /\ LastTrace.result = Str(<<"1">>)

\* C20: executing a wait step or a selection step sends no command,
\* whatever the input.
C20_InteractiveStepsSendNothing ==
    [][(/\ Len(executed') = Len(executed) + 1
        /\ state'.kind \in {"WaitForInputState", "DropoffSelectionState"})
          => sent' = sent]_vars

\* C20 witness: a wait step returned after commands had been sent.
C20_Witness ==
    /\ Returned("WaitForInputState")
    /\ Len(trace) >= 2
    /\ sent # <<>>
    /\ LastTrace.nsent = Len(sent)

\* C21: a KeyboardInterrupt that arrives inside a command dispatch, in the
\* request or in the pacing delay, is never classified as a sub-result and
\* gives the step no outcome: the run ends there with the session closed
\* once, the interrupted request is the last one sent, the interrupted step
\* is the last one executed, and nothing can happen afterwards.
C21_InterruptEndsRun ==
    /\ \A n \in 1..Len(dispatched) : dispatched[n].outcome \notin Interrupts
    /\ pc = "Interrupted"
           => /\ session_closed = 1
              /\ Len(executed) = Len(trace) + 1
              /\ LastExecuted = state.uid
              /\ sent[Len(sent)] = <<state.uid, k>>
              /\ ~ENABLED Next

\* C21 witness: the pacing delay of the second command of the second step
\* was interrupted with a step left.
C21_Witness ==
    /\ pc = "Interrupted"
    /\ slept
    /\ k = 2
    /\ Len(dispatched) = 1
    /\ Len(trace) = 1
    /\ i + 1 < Len(states)

\* C23: the list of steps changes only when a step returned a mapped key,
\* and then it grows by one; Success, Failure, Abort and Repeat leave it as
\* it is, and its length never decreases.
C23_ListChangesOnlyOnKey ==
    [][/\ Len(states') >= Len(states)
       /\ states' # states => (Injects /\ Len(states') = Len(states) + 1)]_vars

\* C23 witness: a Repeat after an injection left the injected step in the
\* list.
C23_Witness ==
    /\ Len(trace) >= 2
    /\ StepReturned
    /\ LastTrace.result = REPEAT
    /\ \E n \in 1..(Len(trace) - 1) : Branch(trace[n].result) = "inject"
    /\ \E s \in Range(states) : s.uid > Len(main_sequence)

\* C24: on a list of a wait step followed by a pose step, when the operator
\* enters the repeat token at the wait step at cursor 0, the step returns
\* Repeat and the cursor becomes -2: it is not clamped, and the rewind itself
\* raises nothing, the run is still in its loop.
C24_RepeatAtZero ==
    (/\ Len(states) = 2
     /\ states[1].kind = "WaitForInputState"
     /\ states[2].kind = "SimpleRobotState"
     /\ Len(executed) = 1
     /\ Len(trace) = 1)
        => /\ LastTrace.cursor = 0
           /\ LastTrace.uid = states[1].uid
           /\ (last_input.ev = "line" /\ TypedLine(last_input.text) = <<"r">>)
                  => /\ LastTrace.result = REPEAT
                     /\ i = -2
                     /\ pc = "loop"

\* C24 witness: "r" entered at the wait step of such a list.
C24_Witness ==
    /\ Len(states) = 2
    /\ states[1].kind = "WaitForInputState"
    /\ states[2].kind = "SimpleRobotState"
    /\ Len(trace) = 1
    /\ last_input.text = <<"r">>
    /\ i = -2
    /\ pc = "loop"

OnlyFixedSteps == \A s \in Range(states) : s.kind = "SimpleRobotState"

\* C25: _send_command and every pose step return only Success or Failure, so
\* that Abort, Repeat and keys come from wait and selection steps only; a run
\* whose list holds pose steps only never rewinds its cursor and never
\* injects a step. Stated of the step that returned last, in every state.
C25_FixedStepsReturnTwo ==
    /\ \A n \in 1..Len(dispatched) : dispatched[n].result \in {SUCCESS, FAILURE}
    /\ Returned("SimpleRobotState") => LastTrace.result \in {SUCCESS, FAILURE}
    /\ OnlyFixedSteps
           => /\ trace # <<>> => LastTrace.cursor = Len(trace) - 1
              /\ i = Len(trace) - (IF pc = "Failed" THEN 1 ELSE 0)
              /\ Len(states) = Len(Known)

\* C25 witness: a list of two pose steps whose second step failed on a
\* transport fault.
C25_Witness ==
    /\ OnlyFixedSteps
    /\ Len(states) = 2
    /\ Len(trace) = 2
    /\ pc = "Failed"
    /\ LastDispatch.outcome = "RequestException"

\* C26: after a Repeat at cursor 0 or 1 the cursor is negative and the list
\* is indexed from its end: with at least -cursor steps in the list the step
\* at position len + cursor is executed, and each Success moves a negative
\* cursor up by one, towards 0 and the front of the list; with fewer steps
\* the run ends by an IndexError, which is none of Completed, Failed and
\* Aborted, and only a cursor beyond the list ends it so.
C26_NegativeCursorWraps ==
    /\ [](/\ (/\ trace # <<>>
               /\ StepReturned
               /\ LastTrace.result = REPEAT
               /\ LastTrace.cursor \in {0, 1})
                  => (/\ i = LastTrace.cursor - 2
                      /\ i < 0
                      /\ pc \in (IF -i <= Len(states)
                                 THEN {"loop"} ELSE {"loop", "IndexError"}))
          /\ (pc = "loop" /\ i < 0 /\ -i > Len(states))
                 => (/\ ENABLED RaiseIndexError
                     /\ ~ENABLED (StartSimple \/ ExecuteWait
                                    \/ ExecuteSelect \/ Complete))
          /\ (pc = "IndexError")
                  => (/\ i < 0
                      /\ -i > Len(states)
                      /\ StepReturned
                      /\ LastTrace.result = REPEAT)
          /\ \A n \in 1..(Len(trace) - 1) :
                  (trace[n].cursor < 0 /\ trace[n].result = SUCCESS)
                      => trace[n + 1].cursor = trace[n].cursor + 1)
    /\ [][(Len(executed') = Len(executed) + 1 /\ i < 0)
              => (/\ -i <= Len(states)
                  /\ LastExecuted' = states[Len(states) + i + 1].uid)]_vars

\* C26 witness: after a Repeat at cursor 0 the steps at cursors -2 and -1
\* were executed and the run went on from cursor 0.
C26_Witness ==
    /\ Len(trace) >= 4
    /\ trace[1].result = REPEAT
    /\ trace[2].cursor = -2
    /\ trace[3].cursor = -1
    /\ trace[4].cursor = 0
    /\ trace[2].uid = states[Len(states) - 1].uid

IsInject(n) == Branch(trace[n].result) = "inject"

\* The uid of the step injected when trace[n] returned its key: injected
\* steps are numbered in the order of their injection.
InjectedBy(n) ==
    Len(Known) + Cardinality({ m \in 1..n : IsInject(m) })

\* The position of a step in the list, counted from 1.
Pos(uid) == CHOOSE p \in 1..Len(states) : states[p].uid = uid

\* C27: an injected step is never removed from the list; and when a
\* selection step that has injected a step is reached again after a Repeat
\* and returns a key again, the second injected step stands in front of the
\* first one in the list.
C27_InjectedStepsStack ==
    /\ [](\A n1 \in 1..Len(trace) : \A n2 \in (n1 + 1)..Len(trace) :
             (/\ IsInject(n1)
              /\ IsInject(n2)
              /\ trace[n1].uid = trace[n2].uid
              /\ \E m \in (n1 + 1)..(n2 - 1) : trace[m].result = REPEAT)
                 => Pos(InjectedBy(n2)) < Pos(InjectedBy(n1)))
    /\ [][\A s \in Range(states) : s \in Range(states')]_vars

NoRepeat == \A n \in 1..Len(trace) : trace[n].result # REPEAT

\* The number of selection steps in the list the run starts with.
SelectCount ==
    Cardinality({ n \in 1..Len(Known) :
                    state_registry[Known[n]].kind = "DropoffSelectionState" })

\* C28: as long as no executed step returned Repeat, the cursor goes up by
\* one with each executed step, no step is executed twice, every injected
\* step is a pose step, and the steps executed are at most the steps of the
\* initial list plus one per selection step in it, after which only the
\* normal end of the run is left; for the sequence of main that is at most
\* six step executions.
C28_NoRepeatTerminates ==
    NoRepeat
        => /\ \A n \in 1..Len(trace) : trace[n].cursor = n - 1
           /\ \A a, b \in 1..Len(executed) :
                  a # b => executed[a] # executed[b]
           /\ \A s \in Range(states) :
                  s.uid > Len(Known) => s.kind = "SimpleRobotState"
           /\ Len(executed) <= Len(Known) + SelectCount
           /\ (pc = "loop" /\ Len(executed) = Len(Known) + SelectCount)
                  => (i = Len(states) /\ ENABLED Complete)
           /\ main_sequence = MainSequence => Len(executed) <= 6

\* C28 witness: the sequence of main completed after six step executions,
\* one of them of the injected step.
C28_Witness ==
    /\ main_sequence = MainSequence
    /\ NoRepeat
    /\ pc = "Completed"
    /\ Len(executed) = 6
    /\ Len(states) = 6

Mapped(result) == result.kind = "str" /\ result.str \in DOMAIN dropoff_mapping

\* C29: when a step returns a value that is none of Success, Repeat, Abort
\* and a key of the mapping of run, such as a key that only the map of the
\* selection step has, the run halts as Failed: nothing is injected, the
\* list and the cursor stay as they are, the session is closed, and no step
\* follows.
C29_UnmappedKeyFails ==
    [][/\ (/\ Len(trace') = Len(trace) + 1
           /\ LastTrace'.result \notin {SUCCESS, REPEAT, ABORT}
           /\ ~Mapped(LastTrace'.result))
              => (/\ pc' = "Failed"
                  /\ states' = states
                  /\ i' = i
                  /\ session_closed' = session_closed + 1)
       /\ (pc = "Failed") => (vars' = vars)]_vars

\* C29 witness: the key "5" of the step's own map ended the run as Failed
\* with steps left.
C29_Witness ==
    /\ pc = "Failed"
    /\ state.kind = "DropoffSelectionState"
    /\ LastTrace.result = Str(<<"5">>)
    /\ last_input.text = <<"5">>
    /\ i + 1 < Len(states)

\* C30: in a selection step the skip and abort tokens are tested before the
\* map: with 's' or 'a' among the keys of the map, entering it still gives
\* Success or Abort, and the step never returns 's' or 'a' as a key.
C30_TokensBeforeMap ==
    /\ \A n \in 1..Len(trace) :
           trace[n].result \notin {Str(<<"s">>), Str(<<"a">>)}
    /\ (Returned("DropoffSelectionState") /\ last_input.ev = "line")
           => (/\ (/\ TypedLine(last_input.text) = <<"s">>
                   /\ <<"s">> \in DOMAIN state.dropoff_map)
                      => LastTrace.result = SUCCESS
               /\ (/\ TypedLine(last_input.text) = <<"a">>
                   /\ <<"a">> \in DOMAIN state.dropoff_map)
                      => LastTrace.result = ABORT)

\* C30 witness: "S" entered at a selection step whose map has the key 's'.
C30_Witness ==
    /\ Returned("DropoffSelectionState")
    /\ <<"s">> \in DOMAIN state.dropoff_map
    /\ last_input.text = <<"S">>
    /\ LastTrace.result = SUCCESS
    /\ pc = "loop"

----------------------------------------------------------------------------
\* StateMachine.run of roarm_v2: a for loop over the list, with the branches
\* SUCCESS, ABORT and else.

\* Variant of the loop of roarm_v2: its ABORT branch is missing, so that an
\* abort is reported as a failure.
RECURSIVE run_v2_without_abort(_, _)
run_v2_without_abort(lst, results) ==
    IF lst = <<>> THEN [executed |-> <<>>, end |-> "Completed"]
    ELSE IF results = <<>> THEN [executed |-> <<>>, end |-> "loop"]
    ELSE LET st == Head(lst)
             result == Head(results)
         IN  IF result = SUCCESS
             THEN LET rest == run_v2_without_abort(Tail(lst), Tail(results))
                  IN  [executed |-> <<st.uid>> \o rest.executed,
                       end |-> rest.end]
             ELSE [executed |-> <<st.uid>>, end |-> "Failed"]

\* The run of roarm_v2 over a list of steps, given what the steps it executes
\* return, in order: the steps executed and how the run ends ("loop" while
\* the result of the next step is still to come).
RECURSIVE run_v2(_, _)
run_v2(lst, results) ==
    IF lst = <<>> THEN [executed |-> <<>>, end |-> "Completed"]
    ELSE IF results = <<>> THEN [executed |-> <<>>, end |-> "loop"]
    ELSE LET st == Head(lst)
             result == Head(results)
         IN  IF result = SUCCESS
             THEN LET rest == run_v2(Tail(lst), Tail(results))
                  IN  [executed |-> <<st.uid>> \o rest.executed,
                       end |-> rest.end]
             ELSE IF result = ABORT
             THEN [executed |-> <<st.uid>>, end |-> "Aborted"]
             ELSE [executed |-> <<st.uid>>, end |-> "Failed"]

\* What the executed steps returned, in order.
Results == [n \in 1..Len(trace) |-> trace[n].result]

ThreeOutcomes ==
    \A n \in 1..Len(trace) : trace[n].result \in {SUCCESS, FAILURE, ABORT}

\* C31: as long as the steps return only Success, Failure and Abort, the
\* cursor loop of roarm_v6 and the for loop of roarm_v2 agree: over the same
\* list and the same results they have executed the same steps in the same
\* order, and the one has ended exactly when the other has, in the same
\* terminal state, Completed, Failed or Aborted.
C31_CursorLoopMatchesForLoop ==
    (ThreeOutcomes /\ StepReturned)
        => LET v2 == run_v2(states, Results)
           IN  /\ v2.executed = executed
               /\ pc \in {"Completed", "Failed", "Aborted"} => v2.end = pc
               /\ pc = "loop"
                      => v2.end = (IF i = Len(states) THEN "Completed"
                                                      ELSE "loop")

\* C31 witness: both loops ended Aborted at the second of three steps.
C31_Witness ==
    /\ ThreeOutcomes
    /\ StepReturned
    /\ pc = "Aborted"
    /\ Len(states) = 3
    /\ Len(executed) = 2
    /\ run_v2(states, Results) = [executed |-> executed, end |-> "Aborted"]

----------------------------------------------------------------------------
\* RecorderStateMachine.run of roarm_getjoints: the menu and the record
\* request, in turn. Here pc is the position in the loop, executed holds 1
\* for a call of menu_state.execute and 2 for one of record_state.execute,
\* sent the record requests, trace what the calls returned.

QUIT == Enum("QUIT")

RecorderLines == { <<>>, <<"q">>, <<" ", "Q">>, <<"x">>, <<"s">> }

RecorderInputs ==
    { [ev |-> "line", text |-> t] : t \in RecorderLines }
      \cup { [ev |-> "EOFError", text |-> <<>>],
             [ev |-> "KeyboardInterrupt", text |-> <<>>] }

\* MenuState.execute on a line: input().strip().lower().
MenuExecuteResult(text) ==
    LET choice == Lower(Strip(text))
    IN  IF choice = <<"q">> THEN QUIT
        ELSE IF choice = <<>> THEN SUCCESS
        ELSE SUCCESS

\* What requests.get and the parsing of its response can do.
RecorderTransport ==
    {"response", "JSONDecodeError", "missing fields", "Timeout",
     "RequestException", "Exception", "KeyboardInterrupt"}

\* RecordPositionState.execute: a response is SUCCESS whatever its text,
\* every caught exception, Timeout included, is FAILURE.
RecordExecuteResult(outcome) ==
    IF outcome \in {"response", "JSONDecodeError", "missing fields"}
    THEN SUCCESS ELSE FAILURE

InitRecorder ==
    /\ state_registry = create_state_registry
    /\ main_sequence = <<>>
    /\ states = <<>>
    /\ i = 0
    /\ state = NoState
    /\ k = 0
    /\ pc = "menu"
    /\ session_closed = 0
    /\ slept = FALSE
    /\ last_input = NoInput
    /\ executed = <<>>
    /\ sent = <<>>
    /\ dispatched = <<>>
    /\ trace = <<>>

\* The prompts shown so far.
Prompts == Cardinality({ n \in 1..Len(executed) : executed[n] = 1 })

\* result = self.menu_state.execute(self.ip_addr) and the test for QUIT.
\* input() may raise: run catches KeyboardInterrupt, nothing catches
\* EOFError.
MenuExecute ==
    /\ pc = "menu"
    /\ Prompts < MaxPrompts
    /\ executed' = Append(executed, 1)
    /\ \E input \in RecorderInputs :
           /\ last_input' = input
           /\ IF input.ev = "line"
              THEN LET result == MenuExecuteResult(input.text)
                   IN  /\ trace' = Append(trace,
                                         [cursor |-> Prompts, uid |-> 1,
                                          result |-> result,
                                          nsent |-> Len(sent)])
                       /\ pc' = IF result = QUIT THEN "Quit" ELSE "record"
              ELSE /\ pc' = IF input.ev = "KeyboardInterrupt"
                            THEN "Interrupted" ELSE "EOFError"
                   /\ UNCHANGED trace
    /\ UNCHANGED <<main_sequence, state_registry, states, i, state, k,
                   session_closed, slept, sent, dispatched>>

\* result = self.record_state.execute(self.ip_addr), the message on FAILURE,
\* and back to the head of the loop.
RecordExecute ==
    /\ pc = "record"
    /\ executed' = Append(executed, 2)
    /\ sent' = Append(sent, <<2, Len(sent) + 1>>)
    /\ \E outcome \in RecorderTransport :
           IF outcome = "KeyboardInterrupt"
           THEN /\ pc' = "Interrupted"
                /\ UNCHANGED trace
           ELSE /\ trace' = Append(trace,
                                  [cursor |-> Prompts - 1, uid |-> 2,
                                   result |-> RecordExecuteResult(outcome),
                                   nsent |-> Len(sent')])
                /\ pc' = "menu"
    /\ UNCHANGED <<main_sequence, state_registry, states, i, state, k,
                   session_closed, slept, last_input, dispatched>>

NextRecorder ==
    \/ MenuExecute
    \/ RecordExecute

SpecRecorder == InitRecorder /\ [][NextRecorder]_vars

\* The menu calls that returned something other than QUIT.
Choices ==
    Cardinality({ n \in 1..Len(trace) :
                    trace[n].uid = 1 /\ trace[n].result # QUIT })

\* Every menu outcome but quit is followed by one record request before the
\* next prompt, and a failed record leads back to the menu.
RecorderAlternates ==
    /\ pc = "menu" => Len(sent) = Choices
    /\ pc = "record"
           => (LastTrace.uid = 1 /\ LastTrace.result # QUIT
               /\ Len(sent) = Choices - 1)
    /\ pc = "Quit" => (LastTrace.result = QUIT /\ Len(sent) = Choices)
    /\ (executed # <<>> /\ LastExecuted = 2 /\ pc # "Interrupted")
           => (/\ pc = "menu"
               /\ LastTrace.uid = 2
               /\ LastTrace.result \in {SUCCESS, FAILURE})

\* C32: in the loop of the recorder every menu outcome other than quit, an
\* invalid choice included, is followed by exactly one record request before
\* the next prompt; a failed record, a timeout included, does not end the
\* loop; the loop ends only on the quit choice or on an interrupt.
C32_RecorderLoopEnds ==
    /\ RecorderAlternates
    /\ pc \notin {"menu", "record"} => pc \in {"Quit", "Interrupted"}

====
